---- MODULE Spec2Model ----
(***************************************************************************)
(* Excel AI: the batch processing engine (llm_processor.py) and the        *)
(* Streamlit script that drives it (app.py).                               *)
(*                                                                         *)
(* Strings are sequences of one-character strings, so that the regular     *)
(* expression of the variable extractor, the template parser of the prompt *)
(* chain and the substring test of the upload handler are computed.        *)
(***************************************************************************)
EXTENDS Integers, Sequences, FiniteSets, TLC

(***************************************************************************)
(* Bounds of the model.                                                    *)
(***************************************************************************)
\* rows of a dataset handed to the engine: 0..MaxRows
MaxRows == 5
\* batch sizes handed to the engine: 1..MaxBatch
MaxBatch == 3
\* rows of the files a user uploads in the application: 0..MaxAppRows
MaxAppRows == 2
\* successful runs recorded in the processing history of a session
MaxRuns == 2


(***************************************************************************)
(* Text.                                                                   *)
(***************************************************************************)
\* the word characters (\w) of the model's alphabet
WordChars == {"a", "b", "c", "o", "z", "s", "u", "f", "x", "y",
              "0", "1", "2", "3", "4", "5", "6", "7", "8", "9", "_"}

Digits == <<"0", "1", "2", "3", "4", "5", "6", "7", "8", "9">>

Min(x, y) == IF x <= y THEN x ELSE y

Range(s) == {s[k] : k \in 1..Len(s)}

\* s[i..j] as Python's s[i-1:j]
Slice(s, i, j) == IF j < i THEN <<>> ELSE SubSeq(s, i, j)

\* the last index of the maximal run of word characters starting at i
\* (i - 1 when s[i] is no word character)
RECURSIVE WordRunEnd(_, _)
WordRunEnd(s, i) ==
    IF i <= Len(s) /\ s[i] \in WordChars THEN WordRunEnd(s, i + 1) ELSE i - 1

\* re.findall(r'\{(\w+)\}', s): the captured names of the non-overlapping
\* matches, scanning from index i
RECURSIVE FindAllFrom(_, _)
FindAllFrom(s, i) ==
    IF i > Len(s) THEN <<>>
    ELSE IF s[i] = "{"
         THEN LET e == WordRunEnd(s, i + 1)
              IN  IF e >= i + 1 /\ e + 1 <= Len(s) /\ s[e + 1] = "}"
                  THEN <<Slice(s, i + 1, e)>> \o FindAllFrom(s, e + 2)
                  ELSE FindAllFrom(s, i + 1)
         ELSE FindAllFrom(s, i + 1)

FindAll(s) == FindAllFrom(s, 1)

\* list(set(system_vars + user_vars))
ExtractVariables(system_prompt, user_prompt) ==
    Range(FindAll(system_prompt) \o FindAll(user_prompt))

\* Python's  a in b  on strings
IsSubstring(a, b) ==
    \E k \in 0..(Len(b) - Len(a)) : Slice(b, k + 1, k + Len(a)) = a

\* str() of a non-negative integer
RECURSIVE IntStr(_)
IntStr(n) == IF n < 10 THEN <<Digits[n + 1]>>
             ELSE IntStr(n \div 10) \o <<Digits[(n % 10) + 1]>>

(***************************************************************************)
(* Datasets (pandas DataFrame): an ordered list of column names and an     *)
(* ordered list of rows, each a function from the column names to cells.   *)
(* A cell is an integer n, a float n.f, a string s or null (NaN/None).     *)
(***************************************************************************)
IntCell(n) == [t |-> "int", n |-> n, f |-> 0, s |-> <<>>]
FloatCell(n, f) == [t |-> "float", n |-> n, f |-> f, s |-> <<>>]
StrCell(s) == [t |-> "str", n |-> 0, f |-> 0, s |-> s]
NullCell == [t |-> "null", n |-> 0, f |-> 0, s |-> <<>>]

ColA == <<"a">>
ColB == <<"b">>

\* a frame with an integer column and a string column that holds nulls
Table(n) ==
    [columns |-> <<ColA, ColB>>,
     rows |-> [i \in 1..n |->
                 (ColA :> IntCell(i)) @@
                 (ColB :> IF i % 2 = 0 THEN NullCell ELSE StrCell(<<"y", Digits[i + 1]>>))]]

\* an all-numeric frame with an integer column and a float column
Numeric(n) ==
    [columns |-> <<ColA, ColB>>,
     rows |-> [i \in 1..n |-> (ColA :> IntCell(i)) @@ (ColB :> FloatCell(i, 5))]]

Datasets == UNION {{Table(n), Numeric(n)} : n \in 0..MaxRows}

ColumnSet(d) == Range(d.columns)

NRows(d) == Len(d.rows)

\* the dtype pandas holds a column in
ColDtype(d, c) ==
    IF \A i \in 1..NRows(d) : d.rows[i][c].t = "int" THEN "int64"
    ELSE IF \A i \in 1..NRows(d) : d.rows[i][c].t \in {"int", "float", "null"} THEN "float64"
    ELSE "object"

\* the dtype of the Series df.iterrows() yields for every row: the common
\* dtype of the columns (iterrows does not preserve dtypes across the row)
RowDtype(d) ==
    IF \A c \in ColumnSet(d) : ColDtype(d, c) = "int64" THEN "int64"
    ELSE IF \A c \in ColumnSet(d) : ColDtype(d, c) \in {"int64", "float64"} THEN "float64"
    ELSE "object"

\* row[var] for the row Series that iterrows yields at position i
IterRow(d, i) ==
    [c \in ColumnSet(d) |->
        LET cell == d.rows[i][c]
        IN  IF RowDtype(d) = "float64" /\ cell.t = "int"
            THEN FloatCell(cell.n, 0)
            ELSE cell]

\* pd.notna
NotNa(cell) == cell.t # "null"

\* str() of a cell value
CellStr(cell) ==
    CASE cell.t = "int" -> IntStr(cell.n)
      [] cell.t = "float" -> IntStr(cell.n) \o <<".">> \o IntStr(cell.f)
      [] cell.t = "str" -> cell.s
      [] OTHER -> <<"n", "a", "n">>

(***************************************************************************)
(* LLMProcessor.prepare_inputs                                             *)
(***************************************************************************)
prepare_inputs(d, system_prompt, user_prompt_template) ==
    LET all_variables == ExtractVariables(system_prompt, user_prompt_template)
    IN  [i \in 1..NRows(d) |->
            [var \in all_variables |->
                IF var \in ColumnSet(d)
                THEN IF NotNa(IterRow(d, i)[var]) THEN CellStr(IterRow(d, i)[var]) ELSE <<>>
                ELSE <<>>]]

(***************************************************************************)
(* LLMProcessor.create_chain: ChatPromptTemplate.from_messages parses the  *)
(* two messages as f-string templates ("{{" and "}}" are literal braces, a *)
(* lone brace is malformed, "{name}" is an input variable of the chain).   *)
(***************************************************************************)
Lit(c) == [field |-> FALSE, text |-> <<c>>]
Field(name) == [field |-> TRUE, text |-> name]

\* the index of the brace closing the field opened just before k, 0 if none
RECURSIVE CloseIdx(_, _, _)
CloseIdx(s, k, depth) ==
    IF k > Len(s) THEN 0
    ELSE IF s[k] = "{" THEN CloseIdx(s, k + 1, depth + 1)
    ELSE IF s[k] = "}" THEN (IF depth = 0 THEN k ELSE CloseIdx(s, k + 1, depth - 1))
    ELSE CloseIdx(s, k + 1, depth)

RECURSIVE ParseFrom(_, _)
ParseFrom(s, i) ==
    IF i > Len(s) THEN [ok |-> TRUE, parts |-> <<>>]
    ELSE IF s[i] \in {"{", "}"} /\ i < Len(s) /\ s[i + 1] = s[i]
         THEN LET r == ParseFrom(s, i + 2)
              IN  [ok |-> r.ok, parts |-> <<Lit(s[i])>> \o r.parts]
    ELSE IF s[i] = "}" THEN [ok |-> FALSE, parts |-> <<>>]
    ELSE IF s[i] = "{"
         THEN LET j == CloseIdx(s, i + 1, 0)
              IN  IF j = 0 THEN [ok |-> FALSE, parts |-> <<>>]
                  ELSE LET r == ParseFrom(s, j + 1)
                       IN  [ok |-> r.ok, parts |-> <<Field(Slice(s, i + 1, j - 1))>> \o r.parts]
    ELSE LET r == ParseFrom(s, i + 1)
         IN  [ok |-> r.ok, parts |-> <<Lit(s[i])>> \o r.parts]

ParseTemplate(s) == ParseFrom(s, 1)

TemplateVariables(parts) == {parts[k].text : k \in {k \in 1..Len(parts) : parts[k].field}}

\* full_system_prompt = f"{system_prompt}\n\n{formatting_instructions}"
FullSystemPrompt(system_prompt, formatting_instructions) ==
    system_prompt \o <<"\n", "\n">> \o formatting_instructions

\* a variant of create_chain: the formatting instructions are literal text
create_chain_literal(system_prompt, user_prompt_template, formatting_instructions) ==
    LET sys == ParseTemplate(system_prompt \o <<"\n", "\n">>)
        usr == ParseTemplate(user_prompt_template)
        fmt == [k \in 1..Len(formatting_instructions) |-> Lit(formatting_instructions[k])]
    IN  [ok |-> sys.ok /\ usr.ok,
         system |-> sys.parts \o fmt,
         user |-> usr.parts,
         input_variables |-> TemplateVariables(sys.parts) \cup TemplateVariables(usr.parts)]

create_chain(system_prompt, user_prompt_template, formatting_instructions) ==
    LET sys == ParseTemplate(FullSystemPrompt(system_prompt, formatting_instructions))
        usr == ParseTemplate(user_prompt_template)
    IN  [ok |-> sys.ok /\ usr.ok,
         system |-> sys.parts,
         user |-> usr.parts,
         input_variables |-> TemplateVariables(sys.parts) \cup TemplateVariables(usr.parts)]

\* the template formatted with the values of the Row Input
RECURSIVE FormatTemplate(_, _)
FormatTemplate(parts, input_dict) ==
    IF parts = <<>> THEN <<>>
    ELSE (IF Head(parts).field THEN input_dict[Head(parts).text] ELSE Head(parts).text)
         \o FormatTemplate(Tail(parts), input_dict)

\* the variables the prompt needs and the Row Input does not give
MissingVariables(chain, input_dict) == chain.input_variables \ DOMAIN input_dict

\* the reply of the model to the two rendered messages
LLMReply(system_message, user_message) ==
    <<"r", ":">> \o system_message \o <<"|">> \o user_message

\* chain.invoke(input_dict) when the model client answers: prompt | llm | StrOutputParser
ChainOutput(chain, input_dict) ==
    LLMReply(FormatTemplate(chain.system, input_dict), FormatTemplate(chain.user, input_dict))

(***************************************************************************)
(* LLMProcessor.process_dataframe, result assembly:                        *)
(*   result_df = df.copy(); result_df[output_column] = outputs             *)
(* The value is the pair of the input object after the call and the result.*)
(***************************************************************************)
SetColumn(d, col, outputs) ==
    [columns |-> IF col \in ColumnSet(d) THEN d.columns ELSE Append(d.columns, col),
     rows |-> [i \in 1..NRows(d) |->
                 [c \in ColumnSet(d) \cup {col} |->
                     IF c = col THEN StrCell(outputs[i]) ELSE d.rows[i][c]]]]

\* a variant of AssembleResult: the column is set on df itself, not on a copy
AssembleResultInPlace(d, col, outputs) ==
    [input |-> SetColumn(d, col, outputs), result |-> SetColumn(d, col, outputs)]

AssembleResult(d, col, outputs) ==
    [input |-> d, result |-> SetColumn(d, col, outputs)]

(***************************************************************************)
(* State.                                                                  *)
(***************************************************************************)
VARIABLES
    \* st.session_state of app.py (an absent value is <<>>, a present one <<v>>)
    df, original_df, processing_history, uploaded_filename,
    \* the file the st.file_uploader widget holds, kept across the runs of
    \* the script until the user picks another file or removes it
    uploaded_file,
    \* what the last run of the script app.py rendered
    ui,
    \* the committed dataset and history when the running "Process with LLM"
    \* handler started
    pre,
    \* the LLMProcessor under construction or in use (its provider)
    processor,
    \* the position of the process_dataframe call and who called it
    pc, caller,
    \* the arguments of the process_dataframe call
    args,
    \* locals of process_dataframe and of the strategy it runs
    chain, inputs, outputs, i,
    \* the row invocations the chain has in flight, and the rows of the
    \* current chunk that completed, in completion order
    inflight, completed,
    \* the calls of the chain and of the progress callback, in order
    trace,
    \* the error process_dataframe raised, and what it returned
    err, ret

session == <<df, original_df, processing_history, uploaded_filename>>
engine == <<processor, pc, caller, args, chain, inputs, outputs, i,
            inflight, completed, trace, err, ret>>
vars == <<df, original_df, processing_history, uploaded_filename, uploaded_file, ui, pre,
          processor, pc, caller, args, chain, inputs, outputs, i,
          inflight, completed, trace, err, ret>>

Absent == <<>>
Some(v) == <<v>>
IsSome(o) == Len(o) = 1
Get(o) == o[1]

Modes == {"batch", "async_batch", "sequential"}

\* an entry of the trace: a chain call on the rows lo..hi as unit k, its
\* return, its failure, one row of it completing, or a progress callback
Ev(e, k, lo, hi, p) == [e |-> e, k |-> k, lo |-> lo, hi |-> hi, p |-> p]

A == Get(args)
N == Len(inputs)

(***************************************************************************)
(* LLMProcessor.__init__                                                   *)
(***************************************************************************)
SupportedProviders == {"ollama", "openai", "azure_openai"}

(***************************************************************************)
(* process_dataframe up to the strategy: the chain and the Row Inputs.     *)
(* A malformed template makes create_chain raise.                          *)
(***************************************************************************)
EnterProcessDataframe(a, who) ==
    LET ch == create_chain(a.system_prompt, a.user_prompt, a.formatting_instructions)
    IN  /\ caller' = who
        /\ args' = Some(a)
        /\ outputs' = <<>>
        /\ inflight' = {}
        /\ completed' = <<>>
        /\ trace' = <<>>
        /\ ret' = Absent
        /\ IF ch.ok
           THEN /\ chain' = Some(ch)
                /\ inputs' = prepare_inputs(a.df, a.system_prompt, a.user_prompt)
                /\ i' = IF a.mode \in {"batch", "async_batch"} THEN 0 ELSE 1
                /\ pc' = "loop"
                /\ err' = ""
           ELSE /\ chain' = Absent
                /\ inputs' = <<>>
                /\ i' = 0
                /\ pc' = "raised"
                /\ err' = "ValueError"

(***************************************************************************)
(* The strategies.                                                         *)
(***************************************************************************)
Chunked == A.mode \in {"batch", "async_batch"}

\* the loop has another iteration
MoreUnits == IF Chunked THEN i < N ELSE i <= N

\* the rows of the iteration: inputs[i:i + batch_size], or the row idx
UnitLo == IF Chunked THEN i + 1 ELSE i
UnitHi == IF Chunked THEN Min(i + A.batch_size, N) ELSE i

\* current_batch = (i // batch_size) + 1, or idx
UnitIndex == IF Chunked THEN (i \div A.batch_size) + 1 ELSE i

\* a variant of TotalBatches: floor division
TotalBatchesFloor(n, batch_size) == n \div batch_size

\* total_batches = (len(inputs) + batch_size - 1) // batch_size
TotalBatches(n, batch_size) == (n + batch_size - 1) \div batch_size

\* a variant of ProgressArgs: the rows of a sequential run counted from 0
ProgressArgsZeroBased(outs) ==
    IF Chunked
    THEN <<UnitIndex, TotalBatches(N, A.batch_size), Len(outs), N>>
    ELSE <<i - 1, N, i - 1, N>>

\* the arguments of the progress callback after the unit, outs being the
\* outputs so far
ProgressArgs(outs) ==
    IF Chunked
    THEN <<UnitIndex, TotalBatches(N, A.batch_size), Len(outs), N>>
    ELSE <<i, N, i, N>>

\* chain.batch(batch) and chain.invoke(input_dict): one output per input, in
\* the order of the inputs
BatchOutputs(ch, inp, lo, hi) ==
    [j \in 1..(hi - lo + 1) |-> ChainOutput(ch, inp[lo + j - 1])]

\* a variant of AbatchOutputs: the results in the order of completion
AbatchOutputsAsCompleted(ch, inp, order, lo, hi) ==
    [j \in 1..Len(order) |-> ChainOutput(ch, inp[order[j]])]

\* await chain.abatch(batch): the rows complete in the order `order`; the
\* results are gathered in the order of the inputs
AbatchOutputs(ch, inp, order, lo, hi) ==
    [j \in 1..(hi - lo + 1) |-> ChainOutput(ch, inp[lo + j - 1])]

\* a variant of AwaitResumes: the call is not awaited
AwaitResumesAtOnce(flying) == TRUE

\* await: the strategy resumes when no row of the chunk is in flight
AwaitResumes(flying) == flying = {}

\* the prompt cannot be formatted from the Row Input (KeyError)
CannotFormat(j) == MissingVariables(Get(chain), inputs[j]) # {}

\* the loop calls the chain on the next unit
Dispatch ==
    /\ pc = "loop"
    /\ MoreUnits
    /\ trace' = Append(trace, Ev("call", UnitIndex, UnitLo, UnitHi, <<>>))
    /\ inflight' = inflight \cup (UnitLo..UnitHi)
    /\ completed' = <<>>
    /\ pc' = "wait"
    /\ UNCHANGED <<session, uploaded_file, ui, pre, processor, caller, args, chain, inputs,
                   outputs, i, err, ret>>

\* the unit's outputs are appended and progress is reported
UnitDone(batch_outputs) ==
    LET outs == outputs \o batch_outputs
    IN  /\ outputs' = outs
        /\ trace' = trace \o <<Ev("ret", UnitIndex, UnitLo, UnitHi, <<>>)>>
                          \o (IF A.callback
                              THEN <<Ev("progress", UnitIndex, UnitLo, UnitHi, ProgressArgs(outs))>>
                              ELSE <<>>)
        /\ i' = IF Chunked THEN i + A.batch_size ELSE i + 1
        /\ completed' = <<>>
        /\ pc' = "loop"

\* chain.invoke / chain.batch returns
CallReturns ==
    /\ pc = "wait"
    /\ A.mode # "async_batch"
    /\ \A j \in UnitLo..UnitHi : ~CannotFormat(j)
    /\ inflight' = inflight \ (UnitLo..UnitHi)
    /\ UnitDone(BatchOutputs(Get(chain), inputs, UnitLo, UnitHi))
    /\ UNCHANGED <<session, uploaded_file, ui, pre, processor, caller, args, chain, inputs, err, ret>>

\* a variant of PcAfterRaise: the error is swallowed and the loop goes on
PcAfterRaiseSwallowed == "loop"

\* an exception of the chain is caught neither by the strategy nor by
\* process_dataframe: the call ends there
PcAfterRaise == "raised"

\* the call raises: the prompt cannot be formatted, or the model client fails
Raise(error) ==
    /\ pc' = PcAfterRaise
    /\ err' = error
    /\ trace' = Append(trace, Ev("raise", UnitIndex, UnitLo, UnitHi, <<>>))
    /\ inflight' = {}
    /\ UNCHANGED <<session, uploaded_file, ui, pre, processor, caller, args, chain, inputs,
                   outputs, i, completed, ret>>

CallRaises ==
    /\ pc = "wait"
    /\ A.mode # "async_batch"
    /\ Raise(IF \E j \in UnitLo..UnitHi : CannotFormat(j)
             THEN "KeyError" ELSE "InvocationError")

\* one row of the chunk abatch runs completes
RowCompletes ==
    /\ pc = "wait"
    /\ A.mode = "async_batch"
    /\ \E j \in inflight :
          /\ ~CannotFormat(j)
          /\ inflight' = inflight \ {j}
          /\ completed' = Append(completed, j)
          /\ trace' = Append(trace, Ev("done", UnitIndex, j, j, <<>>))
    /\ UNCHANGED <<session, uploaded_file, ui, pre, processor, pc, caller, args, chain, inputs,
                   outputs, i, err, ret>>

\* one row of the chunk fails and abatch raises
RowRaises ==
    /\ pc = "wait"
    /\ A.mode = "async_batch"
    /\ \E j \in inflight :
          Raise(IF CannotFormat(j) THEN "KeyError" ELSE "InvocationError")

\* abatch returns
AbatchReturns ==
    /\ pc = "wait"
    /\ A.mode = "async_batch"
    /\ AwaitResumes(inflight)
    /\ inflight' = inflight
    /\ UnitDone(AbatchOutputs(Get(chain), inputs, completed, UnitLo, UnitHi))
    /\ UNCHANGED <<session, uploaded_file, ui, pre, processor, caller, args, chain, inputs, err, ret>>

\* the strategy returns; result_df = df.copy(); result_df[output_column] =
\* outputs (pandas raises when the lengths differ); return result_df.
\* The application passes st.session_state.df itself as df.
Return ==
    /\ pc = "loop"
    /\ ~MoreUnits
    /\ IF Len(outputs) = NRows(A.df)
       THEN LET r == AssembleResult(A.df, A.output_column, outputs)
            IN  /\ ret' = Some(r)
                /\ pc' = "returned"
                /\ err' = err
                /\ df' = IF caller = "app" THEN Some(r.input) ELSE df
       ELSE /\ ret' = ret
            /\ pc' = "raised"
            /\ err' = "ValueError"
            /\ df' = df
    /\ UNCHANGED <<original_df, processing_history, uploaded_filename, uploaded_file, ui, pre,
                   processor, caller, args, chain, inputs, outputs, i, inflight,
                   completed, trace>>

Strategy ==
    \/ Dispatch
    \/ CallReturns
    \/ CallRaises
    \/ RowCompletes
    \/ RowRaises
    \/ AbatchReturns
    \/ Return

(***************************************************************************)
(* Inputs: prompts, output columns, providers, files.                      *)
(***************************************************************************)
SysPlain == <<"s">>
SysB == <<"s", "{", "b", "}">>
SysC == <<"s", "{", "c", "}">>
UserPlain == <<"u">>
UserA == <<"{", "a", "}">>
UserAB == <<"{", "a", "}", "{", "b", "}">>
UserC == <<"{", "c", "}">>
UserO == <<"{", "o", "}">>
UserEscaped == <<"{", "{", "a", "}", "}">>
UserMalformed == <<"{", "a">>
FmtPlain == <<"f">>
FmtZ == <<"f", "{", "z", "}">>
FmtEscaped == <<"f", "{", "{", "z", "}", "}">>
FmtA == <<"f", "{", "a", "}">>

SystemPrompts == {SysPlain, SysB}
UserPrompts == {UserPlain, UserA, UserAB, UserC, UserEscaped, UserMalformed}
FormattingInstructions == {FmtPlain, FmtZ, FmtEscaped, FmtA}
OutputColumns == {<<"o">>, ColA}
BatchSizes == 1..MaxBatch

\* what the script reads of the selected provider from the configuration
\* and the environment
Provider(id, requires_api_key, api_key, endpoint) ==
    [id |-> id, requires_api_key |-> requires_api_key,
     api_key |-> api_key, endpoint |-> endpoint]

Ollama == Provider("ollama", FALSE, FALSE, FALSE)
OpenAINoKey == Provider("openai", TRUE, FALSE, FALSE)
AzureNoEndpoint == Provider("azure_openai", TRUE, TRUE, FALSE)

\* the values of the widgets that decide what a run of the script renders
AppWidgets ==
    [system_prompt : {SysPlain, SysC},
     user_prompt : {UserPlain, UserA, UserC, UserO},
     provider : {Ollama, OpenAINoKey, AzureNoEndpoint}]

\* the values of the widgets only the "Process with LLM" handler reads
RunWidgets ==
    [formatting_instructions : {FmtPlain, FmtZ},
     output_column : OutputColumns,
     mode : Modes,
     batch_size : 1..MaxAppRows]

\* the files a user uploads
Files ==
    {[name |-> <<"s", "a">>, data |-> Table(MaxAppRows)],
     [name |-> <<"a">>, data |-> Numeric(MaxAppRows)],
     [name |-> <<"b">>, data |-> Table(0)]}

\* the arguments of a direct call of process_dataframe
EngineArgs ==
    [df : Datasets,
     system_prompt : SystemPrompts,
     user_prompt : UserPrompts,
     formatting_instructions : FormattingInstructions,
     output_column : OutputColumns,
     mode : Modes,
     batch_size : BatchSizes,
     callback : BOOLEAN]

(***************************************************************************)
(* A caller that constructs an LLMProcessor and calls process_dataframe.   *)
(***************************************************************************)
IdleEngine ==
    /\ processor' = Absent
    /\ pc' = "idle"
    /\ caller' = ""
    /\ args' = Absent
    /\ chain' = Absent
    /\ inputs' = <<>>
    /\ outputs' = <<>>
    /\ i' = 0
    /\ inflight' = {}
    /\ completed' = <<>>
    /\ trace' = <<>>
    /\ err' = ""
    /\ ret' = Absent

\* the providers a direct caller names
EngineProviders == {"ollama", "unknown"}

\* LLMProcessor(provider, ...), which raises ValueError for an unsupported
\* provider, and then process_dataframe(...)
DirectCall ==
    /\ pc = "idle"
    /\ caller = ""
    /\ \E provider \in EngineProviders :
          IF provider \in SupportedProviders
          THEN /\ processor' = Some(provider)
               /\ \E a \in EngineArgs : EnterProcessDataframe(a, "direct")
          ELSE /\ pc' = "raised"
               /\ err' = "ValueError"
               /\ caller' = "direct"
               /\ UNCHANGED <<processor, args, chain, inputs, outputs, i,
                              inflight, completed, trace, ret>>
    /\ UNCHANGED <<session, uploaded_file, ui, pre>>

(***************************************************************************)
(* app.py: one run of the script.                                          *)
(***************************************************************************)
BlankUi ==
    [system_prompt |-> <<>>, user_prompt |-> <<>>,
     detected |-> {}, invalid |-> {}, button |-> "absent", cannot |-> <<>>,
     exception |-> "", errors |-> {}]

\* lines 174-182: the reasons processing is blocked, given that
\* invalid_vars is bound
ErrorMsg(all_variables, invalid_vars, provider) ==
    (IF all_variables = {} THEN <<"No variables found in prompts">> ELSE <<>>)
    \o (IF invalid_vars # {} THEN <<"Invalid column names in prompts">> ELSE <<>>)
    \o (IF provider.requires_api_key /\ ~provider.api_key
        THEN <<"API key not configured">> ELSE <<>>)

\* a variant of CanProcess: invalid column names do not block
CanProcessUnvalidated(all_variables, invalid_vars, provider) ==
    /\ all_variables # {}
    /\ ~(provider.requires_api_key /\ ~provider.api_key)

\* lines 171-182
CanProcess(all_variables, invalid_vars, provider) ==
    ErrorMsg(all_variables, invalid_vars, provider) = <<>>

\* lines 53-184 and 263-264 for the dataset d of the session: what the run
\* renders. invalid_vars is assigned only under `if all_variables:` (line
\* 145), so `if invalid_vars:` (line 177) raises NameError when the prompts
\* hold no variable, and the run ends there.
RenderBody(d, w) ==
    LET all_variables == ExtractVariables(w.system_prompt, w.user_prompt)
        invalid_vars == all_variables \ ColumnSet(d)
        key_missing == w.provider.requires_api_key /\ ~w.provider.api_key
        shown == (IF key_missing THEN {"api_key"} ELSE {})
    IN  IF all_variables = {}
        THEN [system_prompt |-> w.system_prompt, user_prompt |-> w.user_prompt,
              detected |-> {}, invalid |-> {}, button |-> "absent",
              cannot |-> <<>>, exception |-> "NameError", errors |-> shown]
        ELSE [system_prompt |-> w.system_prompt, user_prompt |-> w.user_prompt,
              detected |-> all_variables,
              invalid |-> invalid_vars,
              button |-> IF CanProcess(all_variables, invalid_vars, w.provider)
                         THEN "enabled" ELSE "disabled",
              cannot |-> ErrorMsg(all_variables, invalid_vars, w.provider),
              exception |-> "",
              errors |-> shown \cup (IF invalid_vars # {} THEN {"invalid_columns"} ELSE {})
                               \cup (IF ~CanProcess(all_variables, invalid_vars, w.provider)
                                     THEN {"cannot_process"} ELSE {})]

Render(session_df, w) ==
    IF IsSome(session_df) THEN RenderBody(Get(session_df), w) ELSE BlankUi

\* no run of the script is in progress
ScriptIdle == pc = "idle" /\ caller \in {"", "app"}

\* st.session_state
Session ==
    [df |-> df, original_df |-> original_df,
     processing_history |-> processing_history,
     uploaded_filename |-> uploaded_filename]

SetSession(s) ==
    /\ df' = s.df
    /\ original_df' = s.original_df
    /\ processing_history' = s.processing_history
    /\ uploaded_filename' = s.uploaded_filename

\* line 37: the uploaded file is taken as a new file when no file was
\* stored yet or its name is not a substring of the stored name
IsNewFile(s, name) ==
    \/ ~IsSome(s.original_df)
    \/ ~IsSubstring(name, IF IsSome(s.uploaded_filename)
                          THEN Get(s.uploaded_filename) ELSE <<>>)

\* lines 27-41: the session after the upload block of a run of the script
\* in which the uploader holds `file`
FileUpload(s, file) ==
    IF IsSome(file) /\ IsNewFile(s, Get(file).name)
    THEN [df |-> Some(Get(file).data),
          original_df |-> Some(Get(file).data),
          processing_history |-> <<>>,
          uploaded_filename |-> Some(Get(file).name)]
    ELSE s

\* what the user leaves in the uploader: a file, or nothing
UploaderValues == {Absent} \cup {Some(f) : f \in Files}

\* a run of the script after the user picks a file in the uploader or
\* removes the file from it
Upload ==
    /\ ScriptIdle
    /\ \E file \in UploaderValues, w \in AppWidgets :
          /\ uploaded_file' = file
          /\ SetSession(FileUpload(Session, file))
          /\ ui' = Render(df', w)
    /\ pre' = Absent
    /\ IdleEngine

\* a run of the script after the user edits a widget
Rerun ==
    /\ ScriptIdle
    /\ SetSession(FileUpload(Session, uploaded_file))
    /\ \E w \in AppWidgets : ui' = Render(df', w)
    /\ pre' = Absent
    /\ IdleEngine
    /\ UNCHANGED uploaded_file

\* lines 65-68: "Reset to Original", and the run st.rerun() starts
Reset ==
    /\ ScriptIdle
    /\ LET s1 == FileUpload(Session, uploaded_file)
           s2 == [s1 EXCEPT !.df = s1.original_df, !.processing_history = <<>>]
       IN  /\ IsSome(s1.df)
           /\ SetSession(FileUpload(s2, uploaded_file))
    /\ \E w \in AppWidgets : ui' = Render(df', w)
    /\ pre' = Absent
    /\ IdleEngine
    /\ UNCHANGED uploaded_file

\* the button of line 184 is rendered and enabled in the run
ButtonEnabled(session_df, w) ==
    /\ IsSome(session_df)
    /\ Render(session_df, w).button = "enabled"

\* lines 184-246: "Process with LLM" up to the call of process_dataframe
ProcessClick ==
    /\ ScriptIdle
    /\ SetSession(FileUpload(Session, uploaded_file))
    /\ Len(processing_history') < MaxRuns
    /\ \E w \in AppWidgets :
          /\ ButtonEnabled(df', w)
          /\ pre' = Some([df |-> df', history |-> processing_history'])
          /\ IF w.provider.id = "azure_openai" /\ ~w.provider.endpoint
             THEN \* lines 222-226: st.error, st.stop()
                  /\ ui' = [Render(df', w) EXCEPT !.errors = @ \cup {"endpoint"}]
                  /\ IdleEngine
             ELSE /\ ui' = Render(df', w)
                  /\ processor' = Some(w.provider.id)
                  /\ \E r \in RunWidgets :
                        EnterProcessDataframe(
                           [df |-> Get(df'),
                            system_prompt |-> w.system_prompt,
                            user_prompt |-> w.user_prompt,
                            formatting_instructions |-> r.formatting_instructions,
                            output_column |-> r.output_column,
                            mode |-> r.mode,
                            batch_size |-> r.batch_size,
                            callback |-> TRUE,
                            provider |-> w.provider], "app")
    /\ UNCHANGED uploaded_file

\* lines 248-258: the session is updated and st.rerun() runs the script again
Commit ==
    /\ pc = "returned"
    /\ caller = "app"
    /\ LET s2 == [Session EXCEPT
                    !.df = Some(Get(ret).result),
                    !.processing_history =
                        Append(@, [column |-> A.output_column,
                                   provider |-> A.provider.id])]
       IN  SetSession(FileUpload(s2, uploaded_file))
    /\ ui' = Render(df', [system_prompt |-> A.system_prompt,
                          user_prompt |-> A.user_prompt,
                          provider |-> A.provider])
    /\ pre' = Absent
    /\ IdleEngine
    /\ UNCHANGED uploaded_file

\* lines 260-261: the error is shown and the run of the script ends
Except ==
    /\ pc = "raised"
    /\ caller = "app"
    /\ ui' = [ui EXCEPT !.errors = @ \cup {"processing"}]
    /\ IdleEngine
    /\ UNCHANGED <<session, uploaded_file, pre>>

(***************************************************************************)
(* Specifications.                                                         *)
(***************************************************************************)
Init ==
    /\ df = Absent
    /\ original_df = Absent
    /\ processing_history = <<>>
    /\ uploaded_filename = Absent
    /\ uploaded_file = Absent
    /\ ui = BlankUi
    /\ pre = Absent
    /\ processor = Absent
    /\ pc = "idle"
    /\ caller = ""
    /\ args = Absent
    /\ chain = Absent
    /\ inputs = <<>>
    /\ outputs = <<>>
    /\ i = 0
    /\ inflight = {}
    /\ completed = <<>>
    /\ trace = <<>>
    /\ err = ""
    /\ ret = Absent

\* the application
Next ==
    \/ Upload
    \/ Rerun
    \/ Reset
    \/ ProcessClick
    \/ Strategy
    \/ Commit
    \/ Except

Spec == Init /\ [][Next]_vars

\* the engine, called directly
NextEngine ==
    \/ DirectCall
    \/ Strategy

SpecEngine == Init /\ [][NextEngine]_vars

(***************************************************************************)
(* Properties.                                                             *)
(***************************************************************************)
IsPrefix(s, t) == Len(s) <= Len(t) /\ \A k \in 1..Len(s) : s[k] = t[k]

\* ceil(n / b)
CeilDiv(n, b) == IF n % b = 0 THEN n \div b ELSE (n \div b) + 1

IsCallEv(ev) == ev.e = "call"
IsRetEv(ev) == ev.e = "ret"
IsDoneEv(ev) == ev.e = "done"
IsProgressEv(ev) == ev.e = "progress"

\* the number of entries of the trace before position p that satisfy Test
CountBefore(Test(_), p) == Cardinality({q \in 1..(p - 1) : Test(trace[q])})

\* the chain calls of the run: unit index and rows
CallsOf ==
    LET c == SelectSeq(trace, IsCallEv)
    IN  [k \in 1..Len(c) |-> <<c[k].k, c[k].lo, c[k].hi>>]

\* the arguments of the calls of the progress callback, in order
ProgressOf ==
    LET c == SelectSeq(trace, IsProgressEv)
    IN  [k \in 1..Len(c) |-> c[k].p]

\* the strategy of a process_dataframe call is running or has ended
InStrategy == IsSome(args) /\ IsSome(chain)

\* the output the model gives for the Row Input at position j
ModelResult(j) == ChainOutput(Get(chain), inputs[j])

\* C1: each strategy, when no invocation fails, returns exactly n outputs,
\* the output at position j being the model result for the input at
\* position j, whatever the order in which the rows of a chunk complete;
\* and the outputs gathered so far are aligned at every point of the run.
C1_OutputsAligned ==
    InStrategy =>
        /\ Len(inputs) = NRows(A.df)
        /\ Len(outputs) <= Len(inputs)
        /\ \A j \in 1..Len(outputs) : outputs[j] = ModelResult(j)
        /\ pc = "returned" => Len(outputs) = NRows(A.df)

\* an async_batch run returned after a chunk whose rows completed out of
\* input order, on rows with different model results
C1_Witness ==
    /\ InStrategy
    /\ pc = "returned"
    /\ A.mode = "async_batch"
    /\ Len(outputs) >= 3
    /\ outputs[1] # outputs[2]
    /\ \E p, q \in 1..Len(trace) :
          /\ p < q
          /\ trace[p].e = "done" /\ trace[q].e = "done"
          /\ trace[p].k = trace[q].k
          /\ trace[p].lo > trace[q].lo

\* C2: when process_dataframe fails in the application, the session's
\* dataset (the object passed as df) and history are what they were when
\* the run started, nothing was returned, the failing call is the last
\* entry of the trace (no chunk or row is invoked after it), and this is
\* still so when the handler has shown the error.
C2_FailureLeavesSession ==
    /\ (caller = "app" /\ pc = "raised") =>
          /\ err # ""
          /\ IsSome(pre)
          /\ df = Get(pre).df
          /\ processing_history = Get(pre).history
          /\ ret = Absent
          /\ inflight = {}
    /\ (caller = "app" /\ IsSome(args)) =>
          /\ \A p \in 1..Len(trace) : trace[p].e = "raise" => p = Len(trace)
          /\ (\E p \in 1..Len(trace) : trace[p].e = "raise") =>
                /\ pc = "raised"
                /\ Len(SelectSeq(trace, IsCallEv)) = trace[Len(trace)].k
    /\ "processing" \in ui.errors =>
          /\ pc = "idle"
          /\ IsSome(pre)
          /\ df = Get(pre).df
          /\ processing_history = Get(pre).history

\* a run of the application failed on a model invocation after outputs of
\* earlier rows were computed
C2_Witness ==
    /\ caller = "app"
    /\ pc = "raised"
    /\ err = "InvocationError"
    /\ Len(outputs) >= 1
    /\ NRows(A.df) > Len(outputs)

\* the chain calls and the progress reports the claim C3 expects
ExpectedCalls(n, b) ==
    [k \in 1..CeilDiv(n, b) |-> <<k, (k - 1) * b + 1, Min(k * b, n)>>]
ExpectedProgress(n, b) ==
    [k \in 1..CeilDiv(n, b) |-> <<k, CeilDiv(n, b), Min(k * b, n), n>>]

\* C3: in batch and async_batch mode the chain is called once per chunk
\* of the ceil(n/b) consecutive chunks of size b (the last one smaller),
\* in order, and the progress callback is called once right after each
\* chunk returns, with (k, ceil(n/b), min(k*b, n), n).
C3_ChunksAndProgress ==
    (InStrategy /\ A.mode \in {"batch", "async_batch"}) =>
        LET n == NRows(A.df)
            b == A.batch_size
        IN  /\ IsPrefix(CallsOf, ExpectedCalls(n, b))
            /\ pc = "returned" => CallsOf = ExpectedCalls(n, b)
            /\ A.callback =>
                  /\ IsPrefix(ProgressOf, ExpectedProgress(n, b))
                  /\ pc = "returned" => ProgressOf = ExpectedProgress(n, b)
                  /\ \A p \in 1..Len(trace) :
                        /\ trace[p].e = "progress" =>
                              /\ p > 1
                              /\ trace[p - 1].e = "ret"
                              /\ trace[p - 1].k = trace[p].k
                        /\ trace[p].e = "ret" =>
                              /\ p < Len(trace)
                              /\ trace[p + 1].e = "progress"

\* a batch run of 5 rows with batch size 2 returned: chunks of 2, 2 and 1
C3_Witness ==
    /\ InStrategy
    /\ pc = "returned"
    /\ A.mode = "batch"
    /\ A.callback
    /\ CallsOf = << <<1, 1, 2>>, <<2, 3, 4>>, <<3, 5, 5>> >>
    /\ ProgressOf = << <<1, 3, 2, 5>>, <<2, 3, 4, 5>>, <<3, 3, 5, 5>> >>

\* the trace the claim C4 expects of a sequential run over n rows
ExpectedSequentialTrace(n) ==
    [q \in 1..(3 * n) |->
        LET r == ((q - 1) \div 3) + 1
        IN  CASE (q - 1) % 3 = 0 -> Ev("call", r, r, r, <<>>)
              [] (q - 1) % 3 = 1 -> Ev("ret", r, r, r, <<>>)
              [] OTHER -> Ev("progress", r, r, r, <<r, n, r, n>>)]

\* C4: in sequential mode the chain is invoked once per row, in input
\* order, one invocation in flight at a time, and the progress callback
\* is called with (i, n, i, n) after invocation i returns and before
\* invocation i + 1 starts.
C4_SequentialOrder ==
    (InStrategy /\ A.mode = "sequential" /\ A.callback) =>
        LET n == NRows(A.df)
            done == SelectSeq(trace, LAMBDA ev : ev.e # "raise")
        IN  /\ IsPrefix(done, ExpectedSequentialTrace(n))
            /\ pc = "returned" => trace = ExpectedSequentialTrace(n)
            /\ Cardinality(inflight) <= 1

\* a sequential run over at least three rows returned
C4_Witness ==
    /\ InStrategy
    /\ pc = "returned"
    /\ A.mode = "sequential"
    /\ A.callback
    /\ NRows(A.df) >= 3
    /\ Len(ProgressOf) = NRows(A.df)

\* the placeholders of the prompts of the last run of the script that
\* name no column of the session's dataset
InvalidNow ==
    IF IsSome(df)
    THEN ExtractVariables(ui.system_prompt, ui.user_prompt) \ ColumnSet(Get(df))
    ELSE {}

\* C5: while the prompts hold a placeholder that names no column of the
\* current dataset, the script reports the offending names, the process
\* button is disabled, no LLMProcessor is constructed and the chain is not
\* called; and every process_dataframe call the application makes has
\* prompts whose placeholders all name columns of its dataset.
C5_InvalidBlocksProcessing ==
    /\ InvalidNow # {} =>
          /\ ui.button = "disabled"
          /\ ui.invalid = InvalidNow
          /\ "invalid_columns" \in ui.errors
          /\ pc = "idle"
          /\ ~IsSome(processor)
          /\ ~IsSome(args)
          /\ trace = <<>>
    /\ (caller = "app" /\ IsSome(args)) =>
          ExtractVariables(A.system_prompt, A.user_prompt) \subseteq ColumnSet(A.df)

\* the script rendered prompts with a placeholder that names no column
C5_Witness ==
    /\ IsSome(df)
    /\ <<"c">> \in InvalidNow
    /\ ui.button = "disabled"

\* C6: in async_batch mode the invocations in flight all belong to the
\* current chunk and number at most batch_size; a chunk is dispatched only
\* when every row of the chunks before it has completed and their progress
\* has been reported, and a row completes only between the call of its
\* chunk and the return of that call.
C6_OneChunkInFlight ==
    (InStrategy /\ A.mode = "async_batch") =>
        /\ Cardinality(inflight) <= A.batch_size
        /\ inflight # {} =>
              /\ pc = "wait"
              /\ inflight \subseteq UnitLo..UnitHi
              /\ Len(outputs) = UnitLo - 1
        /\ \A p \in 1..Len(trace) :
              /\ trace[p].e = "call" =>
                    /\ CountBefore(IsRetEv, p) = trace[p].k - 1
                    /\ CountBefore(IsDoneEv, p) = trace[p].lo - 1
                    /\ A.callback => CountBefore(IsProgressEv, p) = trace[p].k - 1
              /\ trace[p].e = "done" =>
                    /\ CountBefore(IsCallEv, p) = trace[p].k
                    /\ CountBefore(IsRetEv, p) = trace[p].k - 1

\* two rows of the second chunk of an async_batch run are in flight
C6_Witness ==
    /\ InStrategy
    /\ A.mode = "async_batch"
    /\ pc = "wait"
    /\ UnitIndex = 2
    /\ Cardinality(inflight) >= 2

\* column c of d, read by row position
ReadColumn(d, c) == [j \in 1..NRows(d) |-> d.rows[j][c]]

\* C7: a successful process_dataframe returns a dataset whose output
\* column, read back by row position, holds the outputs of the strategy,
\* whose other columns are those of the input dataset, with the output
\* column appended when absent and replaced in place when present; the
\* input dataset object is unchanged.
C7_ResultAssembled ==
    (InStrategy /\ pc = "returned") =>
        LET r == Get(ret)
            col == A.output_column
        IN  /\ NRows(r.result) = NRows(A.df)
            /\ ReadColumn(r.result, col) = [j \in 1..Len(outputs) |-> StrCell(outputs[j])]
            /\ \A c \in ColumnSet(A.df) \ {col} :
                  ReadColumn(r.result, c) = ReadColumn(A.df, c)
            /\ ColumnSet(r.result) = ColumnSet(A.df) \cup {col}
            /\ r.result.columns = IF col \in ColumnSet(A.df) THEN A.df.columns
                                  ELSE A.df.columns \o <<col>>
            /\ r.input = A.df

\* a call returned whose output column already existed in the input
C7_Witness ==
    /\ InStrategy
    /\ pc = "returned"
    /\ A.output_column = ColA
    /\ NRows(A.df) >= 2
    /\ Get(ret).result # A.df
    /\ Get(ret).input = A.df

\* the names matched by \{(\w+)\} in s, and those of them whose opening
\* brace is not escaped by doubling (an even number of "{" precedes it)
RECURSIVE BracesBefore(_, _)
BracesBefore(s, p) ==
    IF p > 1 /\ s[p - 1] = "{" THEN 1 + BracesBefore(s, p - 1) ELSE 0

PlaceholderAt(s, p) ==
    /\ s[p] = "{"
    /\ WordRunEnd(s, p + 1) >= p + 1
    /\ WordRunEnd(s, p + 1) + 1 <= Len(s)
    /\ s[WordRunEnd(s, p + 1) + 1] = "}"

Placeholders(s) ==
    {Slice(s, p + 1, WordRunEnd(s, p + 1)) : p \in {q \in 1..Len(s) : PlaceholderAt(s, q)}}

UnescapedPlaceholders(s) ==
    {Slice(s, p + 1, WordRunEnd(s, p + 1)) :
        p \in {q \in 1..Len(s) : PlaceholderAt(s, q) /\ BracesBefore(s, q) % 2 = 0}}

\* the two messages of the chain of the running call
SystemMessage == FullSystemPrompt(A.system_prompt, A.formatting_instructions)
UserMessage == A.user_prompt

\* C8 as stated: whenever an invocation returned an output, every
\* {identifier} placeholder of the composed system message and of the user
\* message is a key of the Row Input.
C8_AsStated ==
    (InStrategy /\ Len(outputs) >= 1) =>
        Placeholders(SystemMessage) \cup Placeholders(UserMessage)
            \subseteq DOMAIN inputs[1]

\* C8, amended: whenever an invocation returned an output, every
\* {identifier} placeholder of the two messages whose braces are not
\* doubled is a key of the Row Input; an invocation whose Row Input lacks
\* one (a placeholder of the formatting instructions) raises KeyError and
\* the call returns nothing.
C8_MissingVariableRaises ==
    InStrategy =>
        LET needed == UnescapedPlaceholders(SystemMessage)
                          \cup UnescapedPlaceholders(UserMessage)
            given == ExtractVariables(A.system_prompt, A.user_prompt)
        IN  /\ Len(outputs) >= 1 => needed \subseteq DOMAIN inputs[1]
            /\ ~(needed \subseteq given) =>
                  /\ outputs = <<>>
                  /\ pc # "returned" \/ NRows(A.df) = 0
                  /\ pc = "raised" => err = "KeyError"
                  /\ \A p \in 1..Len(trace) : trace[p].e \in {"call", "raise"}

\* a call failed at its first invocation on a placeholder that occurs
\* only in the formatting instructions
C8_Witness ==
    /\ InStrategy
    /\ A.formatting_instructions = FmtZ
    /\ A.user_prompt = UserA
    /\ pc = "raised"
    /\ err = "KeyError"
    /\ Len(trace) = 2

\* C9 as stated: when the prompts hold no placeholder, the run of the
\* script raises nothing and renders the process button disabled together
\* with the message "No variables found in prompts".
C9_AsStated ==
    (IsSome(df) /\ ExtractVariables(ui.system_prompt, ui.user_prompt) = {}) =>
        /\ ui.exception = ""
        /\ ui.button = "disabled"
        /\ \E k \in 1..Len(ui.cannot) : ui.cannot[k] = "No variables found in prompts"
        /\ "cannot_process" \in ui.errors

\* C10 as stated: one Row Input per row, in row order, over the variable
\* set; each value the string of the row's cell, or the empty string for a
\* null cell and for a variable that names no column.
C10_AsStated ==
    InStrategy =>
        LET d == A.df
            vs == ExtractVariables(A.system_prompt, A.user_prompt)
        IN  /\ Len(inputs) = NRows(d)
            /\ \A j \in 1..Len(inputs) :
                  /\ DOMAIN inputs[j] = vs
                  /\ \A v \in vs :
                        inputs[j][v] =
                           IF v \in ColumnSet(d) /\ NotNa(d.rows[j][v])
                           THEN CellStr(d.rows[j][v])
                           ELSE <<>>

\* a step in which the user puts into the uploader a file whose name
\* differs from the stored uploaded_filename
UploadsOtherName ==
    /\ uploaded_file' # uploaded_file
    /\ IsSome(uploaded_file')
    /\ Some(Get(uploaded_file').name) # uploaded_filename

\* C11 as stated: every upload of a file whose name differs from the
\* stored uploaded_filename replaces df and original_df with the contents
\* of the file and clears the processing history; no other step (a run,
\* successful or failed, a reset, an upload under the stored name) changes
\* original_df, so that original_df stays the contents of the most recent
\* such upload; and a reset leaves df equal to original_df with an empty
\* history.
C11_AsStated ==
    [][/\ UploadsOtherName =>
             /\ df' = Some(Get(uploaded_file').data)
             /\ original_df' = Some(Get(uploaded_file').data)
             /\ processing_history' = <<>>
       /\ ~UploadsOtherName => original_df' = original_df
       /\ Reset => (df' = original_df' /\ processing_history' = <<>>)]_vars

====
